---- MODULE Spec2Model ----
(***************************************************************************)
(* phydmslib.treelikelihood.TreeLikelihood: node indexing, tip encoding,   *)
(* the flat parameter map, the partial-likelihood kernel and the update    *)
(* protocol (updateParams / paramsarray).                                  *)
(*                                                                         *)
(* Arithmetic.  Floats are modelled by integers: the tables L and dL are   *)
(* exact, the logarithm and the quotients of the root reduction are fixed  *)
(* point with 3 fractional bits.  Arrays are 0-based functions, as in the  *)
(* source.  None is <<>> and a present value x is <<x>>.                   *)
(***************************************************************************)
EXTENDS Integers, Sequences, FiniteSets, TLC

VARIABLES tree, alignment, model, self, held, hist, rng, runs

vars == <<tree, alignment, model, self, held, hist, rng, runs>>

(***************************************************************************)
(* Bounds of the model.                                                    *)
(***************************************************************************)
\* parameter values range over 0..MaxVal
MaxVal == 1
\* size of the codon alphabet (61 in phydmslib.constants), scaled down
N_CODON == 2
\* the optimizer evaluates at most MaxTrials points after the starting point
MaxTrials == 1
\* seeds range over 1..MaxSeed
MaxSeed == 2
\* a simulation run has at most MaxSim replicates
MaxSim == 2
\* at most MaxRuns simulation runs are kept
MaxRuns == 3
\* a p-value is computed from at most MaxSims simulation values
MaxSims == 3

(***************************************************************************)
(* Generic helpers: 0-based arrays, None.                                  *)
(***************************************************************************)
None == <<>>

Some(x) == <<x>>

Len0(a) == Cardinality(DOMAIN a)

Append0(a, x) == [i \in 0..Len0(a) |-> IF i < Len0(a) THEN a[i] ELSE x]

Full(n, v) == [i \in 0..(n - 1) |-> v]

RECURSIVE SumTo(_, _)
SumTo(a, n) == IF n = 0 THEN 0 ELSE a[n - 1] + SumTo(a, n - 1)

\* scipy.sum over the last axis of a 1-D array
Sum0(a) == SumTo(a, Len0(a))

(***************************************************************************)
(* phydmslib.constants: the codon table.  Codons are enumerated over the   *)
(* nucleotides in the order A, C, G, T, stop codons skipped; the first     *)
(* stop codon (TAA) is the 49th triplet, so for the scaled alphabet the    *)
(* index of a codon is its rank among all triplets.                        *)
(***************************************************************************)
INDEX_TO_NT == <<"A", "C", "G", "T">>

INDEX_TO_CODON ==
    [i \in 0..(N_CODON - 1) |->
        <<INDEX_TO_NT[(i \div 16) + 1], INDEX_TO_NT[((i \div 4) % 4) + 1],
          INDEX_TO_NT[(i % 4) + 1]>>]

CodonKeys == {INDEX_TO_CODON[i] : i \in 0..(N_CODON - 1)}

CODON_TO_INDEX ==
    [c \in CodonKeys |-> CHOOSE i \in 0..(N_CODON - 1) : INDEX_TO_CODON[i] = c]

GapCodon == <<"-", "-", "-">>

(***************************************************************************)
(* Bio.Phylo trees.  A clade is a record [name, branch_length, clades];    *)
(* a clade object is identified by its path from the root (the sequence    *)
(* of 0-based child positions), since two clades may carry equal fields.   *)
(***************************************************************************)
TipClade(name, bl) == [name |-> name, branch_length |-> bl, clades |-> <<>>]

InnerClade(bl, cs) == [name |-> "", branch_length |-> bl, clades |-> cs]

RECURSIVE NodeAt(_, _)
NodeAt(clade, path) ==
    IF path = <<>> THEN clade
    ELSE NodeAt(clade.clades[Head(path) + 1], Tail(path))

is_terminal(clade) == clade.clades = <<>>

\* tree.find_clades(order='postorder'): every clade after all its children,
\* children left to right
RECURSIVE PostorderFrom(_, _, _)
PostorderFrom(clade, path, i) ==
    IF i >= Len(clade.clades) THEN <<path>>
    ELSE PostorderFrom(clade.clades[i + 1], Append(path, i), 0)
            \o PostorderFrom(clade, path, i + 1)

find_clades_postorder(tr) == PostorderFrom(tr.root, <<>>, 0)

RECURSIVE SelectPaths(_, _, _)
SelectPaths(tr, paths, wantTerminal) ==
    IF paths = <<>> THEN <<>>
    ELSE (IF is_terminal(NodeAt(tr.root, Head(paths))) = wantTerminal
             THEN <<Head(paths)>> ELSE <<>>)
            \o SelectPaths(tr, Tail(paths), wantTerminal)

get_terminals(tr) == SelectPaths(tr, find_clades_postorder(tr), TRUE)

get_nonterminals(tr) == SelectPaths(tr, find_clades_postorder(tr), FALSE)

count_terminals(tr) == Len(get_terminals(tr))

(***************************************************************************)
(* The substitution model (phydmslib.models, contract of spec section 6.1). *)
(* A model is [nsites, freeparams, values]; values[p] is [kind, v] with   *)
(* kind "float" or "ndarray" (a 1-D array; "other" is a value that is      *)
(* neither) and v the function from the index tuples of the value to its   *)
(* components: () for a float, (0,), ..., (k-1,) for a vector of length k, *)
(* as numpy indexes both.  The instance used here has                      *)
(* transition weights and stationary weights linear in every parameter     *)
(* component, so that its derivatives are the coefficients.                *)
(***************************************************************************)
getattr(m, param) == m.values[param]

isfloat(paramvalue) == paramvalue.kind = "float"

is1darray(paramvalue) == paramvalue.kind = "ndarray"

FloatValue(x) == [kind |-> "float", v |-> (<<>> :> x)]

\* the vector with the components of the 0-based array a
ArrayValue(a) ==
    [kind |-> "ndarray", v |-> [j \in {<<i>> : i \in DOMAIN a} |-> a[j[1]]]]

\* index tuples of a parameter value: () for a float, (j,) for a vector
Indices(paramvalue) == DOMAIN paramvalue.v

\* paramvalue[j] for an index tuple j
Component(paramvalue, j) == paramvalue.v[j]

Sites(m) == 0..(m.nsites - 1)

Codons == 0..(N_CODON - 1)

FreeParamSet(m) == {m.freeparams[k] : k \in 1..Len(m.freeparams)}

ParamPos(m, param) == CHOOSE k \in 1..Len(m.freeparams) : m.freeparams[k] = param

\* a code of the component j of param, distinct for distinct components
SlotCode(m, param, j) ==
    3 * ParamPos(m, param) + (IF j = <<>> THEN 0 ELSE 1 + j[1])

\* the coefficient of the component with this code in the weight of x -> y
MCoef(code, r, x, y) == (code * (x + 1) + y + r) % 3

\* the coefficient of the component with this code in the stationary weight of x
PiCoef(code, r, x) == (code + x + r) % 2

\* the components of param as a sequence of [code, value]
ComponentsOf(m, param) ==
    IF isfloat(getattr(m, param))
    THEN <<[code |-> SlotCode(m, param, <<>>),
            value |-> Component(getattr(m, param), <<>>)]>>
    ELSE [i \in 1..Len0(getattr(m, param).v) |->
            [code |-> SlotCode(m, param, <<i - 1>>),
             value |-> Component(getattr(m, param), <<i - 1>>)]]

RECURSIVE ThetaFrom(_, _)
\* the components of the parameters k.. of the model, in order
ThetaFrom(m, k) ==
    IF k > Len(m.freeparams) THEN <<>>
    ELSE ComponentsOf(m, m.freeparams[k]) \o ThetaFrom(m, k + 1)

RECURSIVE MWeight(_, _, _, _, _)
MWeight(theta, k, r, x, y) ==
    IF k > Len(theta) THEN 0
    ELSE MCoef(theta[k].code, r, x, y) * theta[k].value
            + MWeight(theta, k + 1, r, x, y)

RECURSIVE PiWeight(_, _, _, _)
PiWeight(theta, k, r, x) ==
    IF k > Len(theta) THEN 0
    ELSE PiCoef(theta[k].code, r, x) * theta[k].value + PiWeight(theta, k + 1, r, x)

StationaryFrom(theta, sites) ==
    [r \in sites |-> [x \in Codons |-> PiWeight(theta, 1, r, x)]]

\* model.stationarystate[r][x]
stationarystate(m) == StationaryFrom(ThetaFrom(m, 1), Sites(m))

\* model.dstationarystate(param)[j][r][x], j an index tuple
dstationarystate(m, param) ==
    [j \in Indices(getattr(m, param)) |->
        [r \in Sites(m) |-> [x \in Codons |->
            PiCoef(SlotCode(m, param, j), r, x)]]]

MFrom(theta, sites, t) ==
    [r \in sites |-> [x \in Codons |-> [y \in Codons |->
        (IF x = y THEN 1 ELSE 0) + t * MWeight(theta, 1, r, x, y)]]]

\* model.M(t)[r][x][y]
M(m, t) == MFrom(ThetaFrom(m, 1), Sites(m), t)

InArray(a, v) == \E i \in DOMAIN a : a[i] = v

MtipFrom(theta, sites, t, tipcodons, tipgaps) ==
    [r \in sites |-> [x \in Codons |->
        IF InArray(tipgaps, r) THEN 1
        ELSE (IF x = tipcodons[r] THEN 1 ELSE 0)
                + t * MWeight(theta, 1, r, x, tipcodons[r])]]

\* model.M(t, tips, gaps)[r][x] = M(t)[r][x][tips[r]], and 1 at the gaps
Mtip(m, t, tipcodons, tipgaps) ==
    MtipFrom(ThetaFrom(m, 1), Sites(m), t, tipcodons, tipgaps)

\* model.dM(t, param, M)[j][r][x][y]
dM(m, t, param) ==
    [j \in Indices(getattr(m, param)) |->
        [r \in Sites(m) |-> [x \in Codons |-> [y \in Codons |->
            t * MCoef(SlotCode(m, param, j), r, x, y)]]]]

\* model.dM(t, param, M, tips, gaps)[j][r][x] = dM[j][r][x][tips[r]], and 0
\* at the gaps
dMtip(m, t, param, tipcodons, tipgaps) ==
    [j \in Indices(getattr(m, param)) |->
        [r \in Sites(m) |-> [x \in Codons |->
            IF InArray(tipgaps, r) THEN 0
            ELSE t * MCoef(SlotCode(m, param, j), r, x, tipcodons[r])]]]

\* model.updateParams(newvalues): set the given parameters, keep the others
ModelUpdateParams(m, newvalues) ==
    [m EXCEPT !.values =
        [p \in DOMAIN m.values |->
            IF p \in DOMAIN newvalues THEN newvalues[p] ELSE m.values[p]]]

(***************************************************************************)
(* phydmslib.numutils and the float operations of the root reduction.      *)
(***************************************************************************)
\* broadcastMatrixVectorMultiply(m, v)[r][x] = sum_y m[r][x][y] * v[r][y]
broadcastMatrixVectorMultiply(mat, v) ==
    [r \in DOMAIN mat |-> [x \in DOMAIN mat[r] |->
        Sum0([y \in DOMAIN mat[r][x] |-> mat[r][x][y] * v[r][y]])]]

RECURSIVE FloorLog2(_)
FloorLog2(x) == IF x < 2 THEN 0 ELSE 1 + FloorLog2(x \div 2)

RECURSIVE Pow2(_)
Pow2(e) == IF e = 0 THEN 1 ELSE 2 * Pow2(e - 1)

\* scipy.log of a positive number, in fixed point with 3 fractional bits
Log(x) ==
    8 * FloorLog2(x) + ((8 * (x - Pow2(FloorLog2(x)))) \div Pow2(FloorLog2(x)))

\* a / b for b > 0, in fixed point with 3 fractional bits
Quot(a, b) == (8 * a) \div b

(***************************************************************************)
(* TreeLikelihood._computePartialLikelihoods and _updateInternals.         *)
(* s is the engine (the record of its attributes), m the model.            *)
(***************************************************************************)
\* the fault of calling model.M(t, tips) without the gaps of the tip
TransitionToWithoutGaps(s, m, c) ==
    IF c < s.ntips THEN Mtip(m, s.t[c], s.tips[c], <<>>)
    ELSE M(m, s.t[c])

\* Mright / Mleft: the transition kernel of the branch leading to child c
TransitionTo(s, m, c) ==
    IF c < s.ntips THEN Mtip(m, s.t[c], s.tips[c], s.gaps[c])
    ELSE M(m, s.t[c])

\* the fault of multiplying the rows of a child by the transpose of Mc
MessageFromTransposed(s, c, Mc) ==
    IF c < s.ntips THEN Mc
    ELSE [r \in DOMAIN Mc |-> [x \in DOMAIN Mc[r] |->
            Sum0([y \in DOMAIN Mc[r][x] |-> Mc[r][y][x] * s.L[c - s.ntips][r][y]])]]

\* MLright / MLleft: the message of child c, from its transition kernel Mc
MessageFrom(s, c, Mc) ==
    IF c < s.ntips THEN Mc
    ELSE broadcastMatrixVectorMultiply(Mc, s.L[c - s.ntips])

\* dMright / dMleft
dTransitionTo(s, m, param, c) ==
    IF c < s.ntips THEN dMtip(m, s.t[c], param, s.tips[c], s.gaps[c])
    ELSE dM(m, s.t[c], param)

\* dMLright / dMLleft for the index tuple j, from dMc[j]
dMLFrom(s, c, dMcj) ==
    IF c < s.ntips THEN dMcj
    ELSE broadcastMatrixVectorMultiply(dMcj, s.L[c - s.ntips])

\* MdLright / MdLleft for the index tuple j (0 for a tip)
MdLFrom(s, m, param, j, c, Mc) ==
    IF c < s.ntips THEN [r \in Sites(m) |-> [x \in Codons |-> 0]]
    ELSE broadcastMatrixVectorMultiply(Mc, s.dL[param][c - s.ntips][j])

\* the fault of copying MLright alone to L[ni]
MessageRightOnly(MLright, MLleft) == MLright

\* MLright * MLleft
MessageProduct(MLright, MLleft) ==
    [r \in DOMAIN MLright |-> [x \in DOMAIN MLright[r] |->
        MLright[r][x] * MLleft[r][x]]]

\* the fault of leaving out the derivatives of the children's rows
ProductRuleWithoutMdL(dMLright, MdLright, MLleft, MLright, dMLleft, MdLleft) ==
    [r \in DOMAIN MLright |-> [x \in DOMAIN MLright[r] |->
        dMLright[r][x] * MLleft[r][x] + MLright[r][x] * dMLleft[r][x]]]

\* (dMLright + MdLright) * MLleft + MLright * (dMLleft + MdLleft)
ProductRule(dMLright, MdLright, MLleft, MLright, dMLleft, MdLleft) ==
    [r \in DOMAIN MLright |-> [x \in DOMAIN MLright[r] |->
        (dMLright[r][x] + MdLright[r][x]) * MLleft[r][x]
          + MLright[r][x] * (dMLleft[r][x] + MdLleft[r][x])]]

\* the value written to dL[param][ni]
NodeDL(s, m, param, nright, nleft, Mright, Mleft, MLright, MLleft, dMright, dMleft) ==
    [j \in Indices(getattr(m, param)) |->
        ProductRule(dMLFrom(s, nright, dMright[j]),
                    MdLFrom(s, m, param, j, nright, Mright),
                    MLleft, MLright,
                    dMLFrom(s, nleft, dMleft[j]),
                    MdLFrom(s, m, param, j, nleft, Mleft))]

\* the writes of one iteration, from the kernels and messages of the children
WriteNode(s, m, ni, nright, nleft, Mright, Mleft, MLright, MLleft) ==
    [s EXCEPT
        !.L = [@ EXCEPT ![ni] = MessageProduct(MLright, MLleft)],
        !.dL = [param \in DOMAIN @ |->
                   IF param \in FreeParamSet(m)
                   THEN [@[param] EXCEPT ![ni] =
                            NodeDL(s, m, param, nright, nleft, Mright, Mleft,
                                   MLright, MLleft,
                                   dTransitionTo(s, m, param, nright),
                                   dTransitionTo(s, m, param, nleft))]
                   ELSE @[param]]]

NodeWith(s, m, ni, nright, nleft, Mright, Mleft) ==
    WriteNode(s, m, ni, nright, nleft, Mright, Mleft,
              MessageFrom(s, nright, Mright), MessageFrom(s, nleft, Mleft))

\* one iteration of the loop over n: writes L[ni] and dL[param][ni]
ComputeNode(s, m, n) ==
    NodeWith(s, m, n - s.ntips, s.rdescend[n - s.ntips], s.ldescend[n - s.ntips],
             TransitionTo(s, m, s.rdescend[n - s.ntips]),
             TransitionTo(s, m, s.ldescend[n - s.ntips]))

RECURSIVE ComputeFromDescending(_, _, _)
\* the fault of range(nnodes - 1, ntips - 1, -1): parents before children
ComputeFromDescending(s, m, n) ==
    IF n >= s.nnodes THEN s
    ELSE ComputeNode(ComputeFromDescending(s, m, n + 1), m, n)

RECURSIVE ComputeFrom(_, _, _)
\* the iterations n, n+1, ..., nnodes-1 of the loop, in this order
ComputeFrom(s, m, n) ==
    IF n >= s.nnodes THEN s ELSE ComputeFrom(ComputeNode(s, m, n), m, n + 1)

_computePartialLikelihoods(s, m) == ComputeFrom(s, m, s.ntips)

\* the fault of a[0]: the row of the first internal node
First(a) == a[0]

\* a[-1] of a 0-based array
Last(a) == a[Len0(a) - 1]

\* scipy.sum(Lroot * stationarystate, axis=1)
SiteLik(Lroot, pi) ==
    [r \in DOMAIN pi |-> Sum0([x \in DOMAIN pi[r] |-> Lroot[r][x] * pi[r][x]])]

\* dsiteloglik[param]
DSiteLogLik(m, param, Lroot, dLroot, pi, dpi, sitelik) ==
    [j \in Indices(getattr(m, param)) |->
        [r \in DOMAIN pi |->
            Quot(Sum0([x \in DOMAIN pi[r] |->
                        dpi[j][r][x] * Lroot[r][x] + dLroot[j][r][x] * pi[r][x]]),
                 sitelik[r])]]

\* the assignments after the logarithm succeeded
StoreLogLik(s, siteloglik, dsiteloglik) ==
    [s EXCEPT
        !.siteloglik = siteloglik,
        !.loglik = Sum0(siteloglik),
        !.dsiteloglik = dsiteloglik,
        !.dloglik = [param \in DOMAIN dsiteloglik |->
                        [j \in DOMAIN dsiteloglik[param] |->
                            Sum0(dsiteloglik[param][j])]]]

\* the root reduction, on the tables already written: scipy.log of a
\* sitelik that is not positive raises (errstate divide / invalid), before
\* any of siteloglik, loglik, dsiteloglik, dloglik is assigned
RootReduction(s, m, pi, sitelik) ==
    IF \E r \in DOMAIN sitelik : sitelik[r] <= 0
    THEN [raised |-> TRUE, self |-> s]
    ELSE [raised |-> FALSE,
          self |-> StoreLogLik(s,
                      [r \in DOMAIN sitelik |-> Log(sitelik[r])],
                      [param \in FreeParamSet(m) |->
                          DSiteLogLik(m, param, Last(s.L), Last(s.dL[param]), pi,
                                      dstationarystate(m, param), sitelik)])]

ReduceWith(s, m, pi) ==
    IF s.ninternal = 0 THEN [raised |-> TRUE, self |-> s]
    ELSE RootReduction(s, m, pi, SiteLik(Last(s.L), pi))

\* The result of _updateInternals: [raised, self].  With no internal node
\* L[-1] raises (IndexError).
_updateInternals(s, m) ==
    ReduceWith(_computePartialLikelihoods(s, m), m, stationarystate(m))

(***************************************************************************)
(* TreeLikelihood.__init__.                                                *)
(***************************************************************************)
\* the fault seq[r : r + 3]: the stride of 3 forgotten
CodonAtStrideOne(seq, r) == SubSeq(seq, r + 1, r + 3)

\* seq[3 * r : 3 * r + 3]
CodonAt(seq, r) == SubSeq(seq, 3 * r + 1, 3 * r + 3)

RECURSIVE EncodeSites(_, _, _, _)
\* the loop over r for one tip; acc is [raised, row, nodegaps]
EncodeSites(seq, nsites, r, acc) ==
    IF r >= nsites \/ acc.raised THEN acc
    ELSE LET codon == CodonAt(seq, r)
         IN  EncodeSites(seq, nsites, r + 1,
                IF codon = GapCodon
                THEN [acc EXCEPT !.nodegaps = Append0(@, r)]
                ELSE IF codon \in DOMAIN CODON_TO_INDEX
                THEN [acc EXCEPT !.row[r] = CODON_TO_INDEX[codon]]
                ELSE [acc EXCEPT !.raised = TRUE])

\* dict(alignment): the last sequence given for a header
AlignmentDict(al) ==
    [head \in {al[i][1] : i \in 1..Len(al)} |->
        LET i == CHOOSE i \in 1..Len(al) :
                    /\ al[i][1] = head
                    /\ \A k \in (i + 1)..Len(al) : al[k][1] # head
        IN  al[i][2]]

\* tipnodes + internalnodes, each in postorder
NodeOrder(tr) == get_terminals(tr) \o get_nonterminals(tr)

\* the fault of node.clades[1] in both lookups
SecondChildIndex(st, path, i) == st.name_to_nodeindex[Append(path, 1)]

\* self.name_to_nodeindex[node.clades[i]]
ChildIndex(st, path, i) == st.name_to_nodeindex[Append(path, i)]

\* the body of the loop over (n, node) for n = k - 1; st holds the
\* attributes the loop writes and raised
IndexStep(tr, alignment_d, nodes, k, st) ==
    LET n == k - 1
        path == nodes[k]
        node == NodeAt(tr.root, path)
        fail == [st EXCEPT !.raised = TRUE]
        st1 == IF path # <<>>
               THEN IF n < st.nnodes - 1
                    THEN [st EXCEPT !.t[n] = node.branch_length]
                    ELSE fail
               ELSE st
        st2 == IF st1.raised THEN st1
               ELSE IF is_terminal(node)
               THEN IF ~(n < st.ntips) \/ node.name \notin DOMAIN alignment_d
                    THEN fail
                    ELSE LET enc == EncodeSites(alignment_d[node.name], st.nsites, 0,
                                        [raised |-> FALSE, row |-> st.tips[n],
                                         nodegaps |-> <<>>])
                         IN  IF enc.raised THEN fail
                             ELSE [st1 EXCEPT !.tips[n] = enc.row,
                                              !.gaps = Append0(@, enc.nodegaps)]
               ELSE IF ~(n >= st.ntips) \/ Len(node.clades) # 2
                       \/ Append(path, 0) \notin DOMAIN st.name_to_nodeindex
                       \/ Append(path, 1) \notin DOMAIN st.name_to_nodeindex
                    THEN fail
                    ELSE [st1 EXCEPT
                            !.rdescend[n - st.ntips] = ChildIndex(st, path, 0),
                            !.ldescend[n - st.ntips] = ChildIndex(st, path, 1)]
    IN  IF st2.raised THEN st2
        ELSE [st2 EXCEPT !.name_to_nodeindex = @ @@ (path :> n)]

RECURSIVE IndexLoop(_, _, _, _, _)
IndexLoop(tr, alignment_d, nodes, k, st) ==
    IF k > Len(nodes) \/ st.raised THEN st
    ELSE IndexLoop(tr, alignment_d, nodes, k + 1,
                   IndexStep(tr, alignment_d, nodes, k, st))

\* the fault i += 1 after the loop over the components: every component
\* of a vector is written to one slot, the last write stays
AppendComponentsOneSlot(i2p, param, paramvalue, pindex) ==
    IF Len0(paramvalue.v) = 0 THEN i2p
    ELSE Append0(i2p, <<param, Len0(paramvalue.v) - 1>>)

\* a slot of the flat map: <<param>> for a float parameter (a str in the
\* source), <<param, pindex>> for a component of a vector parameter
RECURSIVE AppendComponents(_, _, _, _)
AppendComponents(i2p, param, paramvalue, pindex) ==
    IF pindex >= Len0(paramvalue.v) THEN i2p
    ELSE AppendComponents(Append0(i2p, <<param, pindex>>), param, paramvalue,
                          pindex + 1)

RECURSIVE SlotLoop(_, _, _)
\* the loop over freeparams that fills _index_to_param, from position k
SlotLoop(m, k, i2p) ==
    IF k > Len(m.freeparams) THEN i2p
    ELSE LET param == m.freeparams[k]
             paramvalue == getattr(m, param)
         IN  SlotLoop(m, k + 1,
                IF isfloat(paramvalue) THEN Append0(i2p, <<param>>)
                ELSE AppendComponents(i2p, param, paramvalue, 0))

\* dict([(y, x) for (x, y) in d.items()])
InvertDict(d) ==
    [y \in {d[x] : x \in DOMAIN d} |->
        CHOOSE x \in DOMAIN d : d[x] = y /\ \A x2 \in DOMAIN d : d[x2] = y => x2 <= x]

\* the tables filled with -1
FullTable(m, ninternal) ==
    Full(ninternal, [r \in Sites(m) |-> [x \in Codons |-> -1]])

FullDTable(m, ninternal, paramvalue) ==
    Full(ninternal, [j \in Indices(paramvalue) |->
                        [r \in Sites(m) |-> [x \in Codons |-> -1]]])

\* the attributes before the first kernel run, from the result st of the
\* loop over the nodes and the slot map i2p
EngineWith(m, st, i2p) ==
    [nsites |-> st.nsites,
     nseqs |-> st.nseqs,
     ninternal |-> st.ninternal,
     ntips |-> st.ntips,
     nnodes |-> st.nnodes,
     name_to_nodeindex |-> st.name_to_nodeindex,
     rdescend |-> st.rdescend,
     ldescend |-> st.ldescend,
     t |-> st.t,
     tips |-> st.tips,
     gaps |-> st.gaps,
     L |-> FullTable(m, st.ninternal),
     dL |-> [param \in FreeParamSet(m) |->
                FullDTable(m, st.ninternal, getattr(m, param))],
     _paramsarray |-> None,
     _index_to_param |-> i2p,
     _param_to_index |-> InvertDict(i2p),
     siteloglik |-> None,
     loglik |-> None,
     dsiteloglik |-> None,
     dloglik |-> None]

\* the attributes the loop over the nodes starts from
LoopStart(nsites, nseqs, ntips, ninternal) ==
    [raised |-> FALSE,
     nsites |-> nsites,
     nseqs |-> nseqs,
     ninternal |-> ninternal,
     ntips |-> ntips,
     nnodes |-> ntips + ninternal,
     name_to_nodeindex |-> <<>>,
     rdescend |-> Full(ninternal, -1),
     ldescend |-> Full(ninternal, -1),
     t |-> Full(ntips + ninternal - 1, -1),
     tips |-> Full(ntips, Full(nsites, 0)),
     gaps |-> <<>>]

\* the asserts on alignment and tree, and the ValueError for a parameter
\* that is neither a float nor a 1-D array
ArgumentsOk(tr, al, m) ==
    /\ \A i \in 1..Len(al) : Len(al[i][2]) = 3 * m.nsites
    /\ {al[i][1] : i \in 1..Len(al)}
         = {NodeAt(tr.root, get_terminals(tr)[i]).name :
                i \in 1..Len(get_terminals(tr))}
    /\ count_terminals(tr) = Len(al)
    /\ \A param \in FreeParamSet(m) :
            isfloat(getattr(m, param)) \/ is1darray(getattr(m, param))

FinishConstruct(m, st) ==
    IF st.raised \/ Len0(st.gaps) # st.ntips THEN [raised |-> TRUE]
    ELSE _updateInternals(EngineWith(m, st, SlotLoop(m, 1, <<>>)), m)

\* The result of TreeLikelihood(tree, alignment, model): [raised, self].
Construct(tr, al, m) ==
    IF ~ArgumentsOk(tr, al, m) THEN [raised |-> TRUE]
    ELSE FinishConstruct(m,
            IndexLoop(tr, AlignmentDict(al), NodeOrder(tr), 1,
                      LoopStart(m.nsites, Len(al), count_terminals(tr),
                                Len(get_nonterminals(tr)))))

(***************************************************************************)
(* The paramsarray property, dloglikarray and updateParams.                *)
(* A numpy array handed to or returned from the engine is                  *)
(* [shape, data]; an array the caller holds also records whether it is the *)
(* very object the engine caches (alias).                                  *)
(***************************************************************************)
nparams(s) == Len0(s._index_to_param)

IsStr(param) == Len(param) = 1

\* the value of slot i read from the model
SlotValue(s, m, i) ==
    LET param == s._index_to_param[i]
    IN  IF IsStr(param) THEN Component(getattr(m, param[1]), <<>>)
        ELSE Component(getattr(m, param[1]), <<param[2]>>)

\* the array the getter builds from the model
FlatFromModel(s, m) == [i \in DOMAIN s._index_to_param |-> SlotValue(s, m, i)]

\* the fault of returning a itself: the caller holds the cached object
NoCopy(a) == [a |-> a, alias |-> TRUE]

\* a.copy(): a new object with the contents of a
Copy(a) == [a |-> a, alias |-> FALSE]

\* the fault of a getter that never stores the array it builds
GetWithoutCache(s, m) ==
    [self |-> s,
     value |-> Copy(IF s._paramsarray # None THEN s._paramsarray[1]
                    ELSE FlatFromModel(s, m))]

\* paramsarray (getter): [self, value]
paramsarray_get(s, m) ==
    IF s._paramsarray # None
    THEN [self |-> s, value |-> Copy(s._paramsarray[1])]
    ELSE LET s1 == [s EXCEPT !._paramsarray = Some(FlatFromModel(s, m))]
         IN  [self |-> s1, value |-> Copy(s1._paramsarray[1])]

\* the fault of dloglik[param[0]][0] for every component of a vector
dloglikarrayFirstComponent(s) ==
    [i \in DOMAIN s._index_to_param |->
        LET param == s._index_to_param[i]
        IN  IF IsStr(param) THEN s.dloglik[param[1]][<<>>]
            ELSE s.dloglik[param[1]][<<0>>]]

\* dloglikarray
dloglikarray(s) ==
    [i \in DOMAIN s._index_to_param |->
        LET param == s._index_to_param[i]
        IN  IF IsStr(param) THEN s.dloglik[param[1]][<<>>]
            ELSE s.dloglik[param[1]][<<param[2]>>]]

\* the result of an operation that returns or raises without touching anything
Untouched(s, m, raised) ==
    [raised |-> raised, self |-> s, model |-> m,
     modelCalled |-> FALSE, kernelRan |-> FALSE]

\* the fault of an updateParams that never clears the snapshot
AfterKernelKeepingSnapshot(upd, m1, modelCalled) ==
    [raised |-> upd.raised, self |-> upd.self,
     model |-> m1, modelCalled |-> modelCalled, kernelRan |-> TRUE]

\* after _updateInternals returned or raised: the snapshot is cleared only
\* when it returned
AfterKernel(upd, m1, modelCalled) ==
    [raised |-> upd.raised,
     self |-> IF upd.raised THEN upd.self
              ELSE [upd.self EXCEPT !._paramsarray = None],
     model |-> m1, modelCalled |-> modelCalled, kernelRan |-> TRUE]

\* updateParams after the partition of newvalues, m1 the model after
\* model.updateParams(modelparams) (called when modelparams is not empty)
UpdateWith(s, m1, newvalues, modelkeys) ==
    IF DOMAIN newvalues \ modelkeys # {}
    THEN [raised |-> TRUE, self |-> s, model |-> m1,
          modelCalled |-> modelkeys # {}, kernelRan |-> FALSE]
    ELSE IF DOMAIN newvalues # {}
    THEN AfterKernel(_updateInternals(s, m1), m1, modelkeys # {})
    ELSE Untouched(s, m1, FALSE)

\* the keys of newvalues that are in model.freeparams
ModelKeys(m, newvalues) == {param \in DOMAIN newvalues : param \in FreeParamSet(m)}

\* updateParams(newvalues): [raised, self, model, modelCalled, kernelRan];
\* modelCalled: model.updateParams was called, kernelRan: _updateInternals was
updateParams(s, m, newvalues) ==
    UpdateWith(s,
               IF ModelKeys(m, newvalues) # {}
               THEN ModelUpdateParams(m,
                        [param \in ModelKeys(m, newvalues) |-> newvalues[param]])
               ELSE m,
               newvalues, ModelKeys(m, newvalues))

\* all(value == self._paramsarray), for arrays of equal length
AllEqual(data, cached) == \A i \in DOMAIN cached : data[i] = cached[i]

\* the dict newvalues the setter builds from value
NewValues(s, data) ==
    LET i2p == s._index_to_param
        names == {i2p[i][1] : i \in DOMAIN i2p}
        strslot(param) == CHOOSE i \in DOMAIN i2p : i2p[i] = <<param>>
        paramd(param) ==
            [pindex \in {i2p[i][2] : i \in {k \in DOMAIN i2p :
                                ~IsStr(i2p[k]) /\ i2p[k][1] = param}} |->
                data[s._param_to_index[<<param, pindex>>]]]
    IN  [param \in names |->
            IF \E i \in DOMAIN i2p : i2p[i] = <<param>>
            THEN FloatValue(data[strslot(param)])
            ELSE ArrayValue([k \in 0..(Cardinality(DOMAIN paramd(param)) - 1) |->
                                paramd(param)[k]])]

\* the asserts on vectorized_params: every vector parameter has the
\* components 0..len-1
ComponentsComplete(s) ==
    LET i2p == s._index_to_param
    IN  \A i \in DOMAIN i2p :
            ~IsStr(i2p[i]) =>
                LET keys == {i2p[k][2] : k \in {k \in DOMAIN i2p :
                                ~IsStr(i2p[k]) /\ i2p[k][1] = i2p[i][1]}}
                IN  keys = 0..(Cardinality(keys) - 1)

\* the fault of a setter that leaves the snapshot cleared by updateParams
RefreshSkipped(upd) == upd

\* self._paramsarray = self.paramsarray, reached when updateParams returned
RefreshSnapshot(upd) ==
    IF upd.raised THEN upd
    ELSE [upd EXCEPT !.self = paramsarray_get(upd.self, upd.model).self]

\* the fault of a setter without the comparison with the snapshot
SetWithoutSkip(s, m, value) ==
    IF Len(value.shape) # 1 THEN Untouched(s, m, TRUE)
    ELSE IF value.shape[1] # nparams(s) THEN Untouched(s, m, TRUE)
    ELSE IF ~ComponentsComplete(s) THEN Untouched(s, m, TRUE)
    ELSE RefreshSnapshot(updateParams(s, m, NewValues(s, value.data)))

\* the fault of a setter that asserts the length of the last axis only
SetWithoutDimCheck(s, m, value) ==
    IF value.shape[Len(value.shape)] # nparams(s) THEN Untouched(s, m, TRUE)
    ELSE IF s._paramsarray # None /\ AllEqual(value.data, s._paramsarray[1])
    THEN Untouched(s, m, FALSE)
    ELSE IF ~ComponentsComplete(s) THEN Untouched(s, m, TRUE)
    ELSE RefreshSnapshot(updateParams(s, m, NewValues(s, value.data)))

\* paramsarray (setter): [raised, self, model, modelCalled, kernelRan]
paramsarray_set(s, m, value) ==
    IF Len(value.shape) # 1 THEN Untouched(s, m, TRUE)
    ELSE IF value.shape[1] # nparams(s) THEN Untouched(s, m, TRUE)
    ELSE IF s._paramsarray # None /\ AllEqual(value.data, s._paramsarray[1])
    THEN Untouched(s, m, FALSE)
    ELSE IF ~ComponentsComplete(s) THEN Untouched(s, m, TRUE)
    ELSE RefreshSnapshot(updateParams(s, m, NewValues(s, value.data)))

(***************************************************************************)
(* TreeLikelihood.maximizeLikelihood.  scipy.optimize.minimize is given    *)
(* the callbacks func and dfunc, the starting point and the bounds; it     *)
(* calls them at the starting point and at trial points of its choice      *)
(* within the bounds and returns the best point it evaluated (x) with the  *)
(* value of func there (fun).  An exception of a callback leaves minimize  *)
(* and maximizeLikelihood.                                                 *)
(***************************************************************************)
\* model.PARAMLIMITS[param]: (minbound, maxbound)
PARAMLIMITS(param) == <<0, MaxVal>>

\* paramsarraybounds
paramsarraybounds(s) ==
    [i \in DOMAIN s._index_to_param |-> PARAMLIMITS(s._index_to_param[i][1])]

\* the 1-dimensional ndarray with the elements x
NdArray(x) == [shape |-> <<Len0(x)>>, data |-> x]

\* func(x): self.paramsarray = x; return -self.loglik.  The outcome of a
\* callback is the engine and the model it leaves and the number it returns,
\* None if it raised.
func(s, m, x) ==
    LET set == paramsarray_set(s, m, NdArray(x))
    IN  [raised |-> set.raised, self |-> set.self, model |-> set.model,
         kernelRan |-> set.kernelRan,
         value |-> IF set.raised THEN None ELSE Some(0 - set.self.loglik)]

\* dfunc(x): self.paramsarray = x; return -self.dloglikarray
dfunc(s, m, x) ==
    LET set == paramsarray_set(s, m, NdArray(x))
    IN  [raised |-> set.raised, self |-> set.self, model |-> set.model,
         kernelRan |-> set.kernelRan,
         value |-> IF set.raised THEN None
                   ELSE Some([i \in DOMAIN dloglikarray(set.self) |->
                                0 - dloglikarray(set.self)[i]])]

\* one evaluation of the optimizer at x: func, and dfunc unless approx_grad;
\* run is [raised, self, model, kernels, evals], evals the points evaluated
\* with their values of func
EvaluateWith(run, x, f, approx_grad) ==
    IF f.raised
    THEN [run EXCEPT !.raised = TRUE, !.self = f.self, !.model = f.model,
                     !.kernels = @ + (IF f.kernelRan THEN 1 ELSE 0)]
    ELSE LET g == IF approx_grad THEN f ELSE dfunc(f.self, f.model, x)
         IN  [raised |-> g.raised, self |-> g.self, model |-> g.model,
              kernels |-> run.kernels + (IF f.kernelRan THEN 1 ELSE 0)
                            + (IF ~approx_grad /\ g.kernelRan THEN 1 ELSE 0),
              evals |-> Append(run.evals, [x |-> x, fun |-> f.value[1]])]

RECURSIVE EvaluateAll(_, _, _, _)
\* the evaluations at the points xs[k], xs[k+1], ..., until one raises
EvaluateAll(run, xs, k, approx_grad) ==
    IF k > Len(xs) \/ run.raised THEN run
    ELSE EvaluateAll(EvaluateWith(run, xs[k], func(run.self, run.model, xs[k]),
                                  approx_grad),
                     xs, k + 1, approx_grad)

\* scipy.optimize.minimize(func, x0, jac=dfunc, bounds=bounds), evaluating
\* x0 and then the points of trials
minimize(s, m, x0, trials, approx_grad) ==
    EvaluateAll([raised |-> FALSE, self |-> s, model |-> m, kernels |-> 0,
                 evals |-> <<>>],
                <<x0>> \o trials, 1, approx_grad)

\* the results minimize may return: an evaluated point of least func value
OptimizeResults(evals) ==
    {evals[k] : k \in {k \in 1..Len(evals) :
                        \A k2 \in 1..Len(evals) : evals[k].fun <= evals[k2].fun}}

\* maximizeLikelihood(approx_grad), the optimizer choosing trials: the read
\* of self.paramsarray gives the starting point
maximizeLikelihood(s, m, approx_grad, trials) ==
    minimize(paramsarray_get(s, m).self, m, paramsarray_get(s, m).value.a,
             trials, approx_grad)

(***************************************************************************)
(* The pseudo-random generator of the process (scipy.random): a state, the *)
(* state a seed sets, and draws that advance the state.  The generator is  *)
(* a linear congruential one of full period.                               *)
(***************************************************************************)
RngModulus == 16

\* scipy.random.seed(seed): the state the seed sets
Seeded(seed) == (7 * seed + 1) % RngModulus

\* the state after one draw
Advance(state) == (5 * state + 3) % RngModulus

\* scipy.random.randint(n): the number in 0..n-1 drawn in this state
RandomBelow(state, n) == (Advance(state) \div 2) % n

(***************************************************************************)
(* phydmslib.simulate.simulateAlignment(model, tree, prefix, seed, nSim):  *)
(* seeds the generator when a seed is given and evolves nSim replicate     *)
(* alignments down the tree: the root sequence from the stationary         *)
(* distribution, the sequence of a child from the transition weights       *)
(* M(t)[r][x] of the codon x of its parent.  A sequence is the array of    *)
(* its codon indices; an alignment is the sequence of (tip name, seq).     *)
(***************************************************************************)
RECURSIVE SampleFrom(_, _, _)
\* the state y whose interval of the cumulated weights holds u
SampleFrom(weights, u, y) ==
    IF y >= Len0(weights) - 1 \/ u < weights[y] THEN y
    ELSE SampleFrom(weights, u - weights[y], y + 1)

RECURSIVE EvolveSites(_, _, _)
\* the codons of the sites r.., each drawn with the weights weights[r] of
\* its site; acc is [seq, rng]
EvolveSites(weights, r, acc) ==
    IF r >= Len0(weights) THEN acc
    ELSE EvolveSites(weights, r + 1,
                     [seq |-> Append0(acc.seq,
                                SampleFrom(weights[r],
                                           RandomBelow(acc.rng, Sum0(weights[r])),
                                           0)),
                      rng |-> Advance(acc.rng)])

RECURSIVE EvolveBelow(_, _, _, _, _)
\* the sequences of the tips below clade, whose sequence is seq, children
\* i.. ; acc is [tips, rng]
EvolveBelow(m, clade, seq, i, acc) ==
    IF clade.clades = <<>> THEN [acc EXCEPT !.tips = Append(@, <<clade.name, seq>>)]
    ELSE IF i > Len(clade.clades) THEN acc
    ELSE LET child == clade.clades[i]
             ev == EvolveSites([r \in Sites(m) |->
                                    M(m, child.branch_length)[r][seq[r]]],
                               0, [seq |-> <<>>, rng |-> acc.rng])
         IN  EvolveBelow(m, clade, seq, i + 1,
                         EvolveBelow(m, child, ev.seq, 1,
                                     [acc EXCEPT !.rng = ev.rng]))

RECURSIVE SimulateReplicates(_, _, _, _)
\* the replicates that remain, each from a root sequence evolved down the
\* tree; acc is [alignments, rng]
SimulateReplicates(tr, m, nSim, acc) ==
    IF Len(acc.alignments) >= nSim THEN acc
    ELSE LET root == EvolveSites(stationarystate(m), 0,
                                 [seq |-> <<>>, rng |-> acc.rng])
             one == EvolveBelow(m, tr.root, root.seq, 1,
                                [tips |-> <<>>, rng |-> root.rng])
         IN  SimulateReplicates(tr, m, nSim,
                                [alignments |-> Append(acc.alignments, one.tips),
                                 rng |-> one.rng])

\* the fault of a run that never seeds the generator
SimulateWithoutSeeding(tr, m, seed, nSim, state) ==
    SimulateReplicates(tr, m, nSim, [alignments |-> <<>>, rng |-> state])

\* simulateAlignment: [alignments, rng]; seed is None for no seed
simulateAlignment(tr, m, seed, nSim, state) ==
    SimulateReplicates(tr, m, nSim,
                       [alignments |-> <<>>,
                        rng |-> IF seed # None THEN Seeded(seed[1]) ELSE state])

(***************************************************************************)
(* phydmslib.modeladequacy.calculate_pvalue.  The quotient of two integers *)
(* is the fraction [num, den].                                             *)
(***************************************************************************)
\* the fault of scipy.greater_equal
CountGreaterOrEqual(simulation_values, true_value) ==
    Sum0([i \in 0..(Len(simulation_values) - 1) |->
            IF simulation_values[i + 1] >= true_value THEN 1 ELSE 0])

\* scipy.sum(scipy.greater(simulation_values, true_value))
CountGreater(simulation_values, true_value) ==
    Sum0([i \in 0..(Len(simulation_values) - 1) |->
            IF simulation_values[i + 1] > true_value THEN 1 ELSE 0])

\* scipy.sum(scipy.equal(simulation_values, true_value))
CountEqual(simulation_values, true_value) ==
    Sum0([i \in 0..(Len(simulation_values) - 1) |->
            IF simulation_values[i + 1] = true_value THEN 1 ELSE 0])

\* the asserts on pvalue and the return
PvalueFrom(greater, tie_breaker, n, state) ==
    IF 0 <= greater + tie_breaker + 1 /\ greater + tie_breaker + 1 <= n + 1
    THEN [raised |-> FALSE, rng |-> state,
          pvalue |-> Some([num |-> greater + tie_breaker + 1, den |-> n + 1])]
    ELSE [raised |-> TRUE, rng |-> state, pvalue |-> None]

\* calculate_pvalue(simulation_values, true_value, seed): [raised, rng, pvalue];
\* state is the generator's state at the call, seeded the one after the seeding
calculate_pvalue(simulation_values, true_value, seed, state) ==
    LET seeded == IF seed # None THEN Seeded(seed[1]) ELSE state
    IN  IF ~(Len(simulation_values) >= 2)
        THEN [raised |-> TRUE, rng |-> seeded, pvalue |-> None]
        ELSE IF CountEqual(simulation_values, true_value) >= 1
        THEN PvalueFrom(CountGreater(simulation_values, true_value),
                        RandomBelow(seeded, CountEqual(simulation_values, true_value)),
                        Len(simulation_values), Advance(seeded))
        ELSE PvalueFrom(CountGreater(simulation_values, true_value),
                        CountEqual(simulation_values, true_value),
                        Len(simulation_values), seeded)

(***************************************************************************)
(* Inputs.                                                                 *)
(***************************************************************************)
Values == 0..MaxVal

AAA == <<"A", "A", "A">>

AAC == <<"A", "A", "C">>

\* a key of an assignment that names no free parameter of the model
OtherKey == "branchlength"

\* (tipA:1,tipB:1);
Tree2 == [root |-> InnerClade(0, <<TipClade("tipA", 1), TipClade("tipB", 1)>>)]

\* ((tipA:1,tipB:2):1,tipC:2);
Tree3 ==
    [root |-> InnerClade(0, <<InnerClade(1, <<TipClade("tipA", 1),
                                              TipClade("tipB", 2)>>),
                              TipClade("tipC", 2)>>)]

\* one site: an observed codon and a gap
Alignment2 == << <<"tipA", AAA>>, <<"tipB", GapCodon>> >>

\* two sites
Alignment3 ==
    << <<"tipC", GapCodon \o AAC>>, <<"tipA", AAA \o AAC>>,
       <<"tipB", AAC \o AAC>> >>

\* two sites, a float parameter
ModelsKappa ==
    {[nsites |-> 2, freeparams |-> <<"kappa">>,
      values |-> ("kappa" :> FloatValue(a))] : a \in Values}

\* one site, a vector parameter of length 2
ModelsPhi ==
    {[nsites |-> 1, freeparams |-> <<"phi">>,
      values |-> ("phi" :> ArrayValue(e))] : e \in [0..1 -> Values]}

Inputs ==
    {[tree |-> Tree3, alignment |-> Alignment3, model |-> m] : m \in ModelsKappa}
      \cup {[tree |-> Tree2, alignment |-> Alignment2, model |-> m] :
                m \in ModelsPhi}

\* the values a caller may give a parameter: those of the kind it has
ValuesLike(paramvalue) ==
    {[kind |-> paramvalue.kind, v |-> e] : e \in [Indices(paramvalue) -> Values]}

\* the assignments (dicts) handed to updateParams
Assignments(m) ==
    LET keys == FreeParamSet(m) \cup {OtherKey}
        vals(param) == IF param = OtherKey THEN {FloatValue(1)}
                       ELSE ValuesLike(getattr(m, param))
        kind(param) == IF param = OtherKey THEN "float"
                       ELSE getattr(m, param).kind
    IN  UNION {{f \in [K -> UNION {vals(param) : param \in K}] :
                    \A param \in K :
                        /\ f[param].kind = kind(param)
                        /\ f[param] \in vals(param)} :
               K \in SUBSET keys}

\* the arrays assigned to paramsarray: every array of the right length, and
\* arrays one too short, one too long and 2-dimensional
ArrayInputs(s) ==
    {[shape |-> <<nparams(s)>>, data |-> a] :
        a \in [0..(nparams(s) - 1) -> Values]}
      \cup {[shape |-> <<n>>, data |-> Full(n, 1)] :
                n \in {nparams(s) - 1, nparams(s) + 1}}
      \cup {[shape |-> <<1, nparams(s)>>, data |-> Full(nparams(s), 1)]}

\* the sequences of trial points the optimizer may choose, each point
\* within the bounds
TrialSequences(bounds) ==
    UNION {[1..n -> {x \in [DOMAIN bounds -> Values] :
                        \A i \in DOMAIN bounds :
                            bounds[i][1] <= x[i] /\ x[i] <= bounds[i][2]}] :
            n \in 0..MaxTrials}

\* the seeds given: none (False), or 1..MaxSeed
SeedInputs == {None} \cup {Some(n) : n \in 1..MaxSeed}

\* the true value of the statistic
TrueValue == 10

(***************************************************************************)
(* Inputs of the constructor: trees of several shapes (bifurcating and     *)
(* not), alignments with gaps, stop codons, permuted, missing, repeated    *)
(* and surplus headers and wrong lengths, and models with several          *)
(* declarations of free parameters.                                        *)
(***************************************************************************)
TAA == <<"T", "A", "A">>

\* (tipA:1,(tipB:2,tipC:1):2);
Tree3R ==
    [root |-> InnerClade(0, <<TipClade("tipA", 1),
                              InnerClade(2, <<TipClade("tipB", 2),
                                              TipClade("tipC", 1)>>)>>)]

\* ((tipA:1,tipB:2):1,(tipC:2,tipD:1):2);
Tree4 ==
    [root |-> InnerClade(0, <<InnerClade(1, <<TipClade("tipA", 1),
                                              TipClade("tipB", 2)>>),
                              InnerClade(2, <<TipClade("tipC", 2),
                                              TipClade("tipD", 1)>>)>>)]

\* (tipD:1,((tipA:1,tipB:2):1,tipC:2):1);
Tree4C ==
    [root |-> InnerClade(0, <<TipClade("tipD", 1),
                              InnerClade(1, <<Tree3.root.clades[1],
                                              TipClade("tipC", 2)>>)>>)]

\* two tips of the same name
TreeDup == [root |-> InnerClade(0, <<TipClade("tipA", 1), TipClade("tipA", 2)>>)]

\* a single tip
TreeTip == [root |-> TipClade("tipA", 0)]

\* (tipA:1,tipB:1,tipC:1);
TreeTri ==
    [root |-> InnerClade(0, <<TipClade("tipA", 1), TipClade("tipB", 1),
                              TipClade("tipC", 1)>>)]

\* ((tipA:1,tipB:1):1);
TreeUnary == [root |-> InnerClade(0, <<Tree2.root>>)]

Trees == {Tree2, Tree3, Tree3R, Tree4, Tree4C, TreeDup, TreeTip, TreeTri, TreeUnary}

\* the names of the tips of the tree, left to right
TipNames(tr) ==
    [i \in 1..count_terminals(tr) |-> NodeAt(tr.root, get_terminals(tr)[i]).name]

\* sequences of nsites codons given to a tip
SeqChoices(nsites) ==
    IF nsites = 1 THEN {AAA, AAC, GapCodon, TAA}
    ELSE {AAA \o AAC, GapCodon \o AAA, AAC \o GapCodon, GapCodon \o GapCodon}

Reverse(seq) == [i \in 1..Len(seq) |-> seq[Len(seq) + 1 - i]]

\* alignments for the tree: every choice of sequences, headers in the order
\* of the tips or reversed; and alignments without the last tip, with a
\* header that names no tip, and with a sequence of the wrong length
AlignmentsFor(tr, nsites) ==
    LET names == TipNames(tr)
        full == {[i \in 1..Len(names) |-> <<names[i], f[i]>>] :
                    f \in [1..Len(names) -> SeqChoices(nsites)]}
        one == [i \in 1..Len(names) |-> <<names[i], CodonAt(AAA \o AAA, 0)>>]
    IN  full \cup {Reverse(al) : al \in full}
          \cup {SubSeq(one, 1, Len(names) - 1),
                Append(one, <<"tipX", AAA>>),
                [one EXCEPT ![1] = <<names[1], AAA \o AAC>>]}

OtherValue == [kind |-> "other", v |-> (<<>> :> 1)]

\* the models of n sites, every parameter component 1
ModelShapes(n) ==
    {[nsites |-> n, freeparams |-> <<"kappa", "eta">>,
      values |-> ("kappa" :> FloatValue(1)) @@ ("eta" :> ArrayValue(Full(2, 1)))],
     [nsites |-> n, freeparams |-> <<"eta", "kappa">>,
      values |-> ("kappa" :> FloatValue(1)) @@ ("eta" :> ArrayValue(Full(2, 1)))],
     [nsites |-> n, freeparams |-> <<"phi", "omega", "eta">>,
      values |-> ("phi" :> ArrayValue(Full(1, 1))) @@ ("omega" :> FloatValue(1))
                    @@ ("eta" :> ArrayValue(Full(2, 1)))],
     [nsites |-> n, freeparams |-> <<"kappa", "omega">>,
      values |-> ("kappa" :> FloatValue(1)) @@ ("omega" :> OtherValue)]}

\* sites of the models a tree is given: 1 or 2, and 1 for the larger trees
SitesFor(tr) == IF count_terminals(tr) > 3 THEN {1} ELSE {1, 2}

ConstructorInputs ==
    UNION {UNION {{[tree |-> tr, alignment |-> al, model |-> m] :
                        al \in AlignmentsFor(tr, n), m \in ModelShapes(n)} :
                    n \in SitesFor(tr)} :
            tr \in Trees}

(***************************************************************************)
(* The state machine.  self and model are the engine and its model after   *)
(* the last operation; held is the array the last read of paramsarray      *)
(* returned to the caller (None once the caller has called a mutation);    *)
(* hist records the last operation: its name, whether it raised, whether   *)
(* it called model.updateParams and _updateInternals, the kind of its      *)
(* argument and where an assigned array came from.  rng is the state of    *)
(* the process's pseudo-random generator and runs the alignments of the    *)
(* simulation runs so far.                                                 *)
(***************************************************************************)
Hist(op, res, arg, from) ==
    [op |-> op, raised |-> res.raised, modelCalled |-> res.modelCalled,
     kernelRan |-> res.kernelRan, arg |-> arg, from |-> from]

NoCall == [raised |-> FALSE, modelCalled |-> FALSE, kernelRan |-> FALSE]

\* the state after engine = TreeLikelihood(tree, alignment, model) returned c
Constructed(inp, c) ==
    /\ ~c.raised
    /\ tree = inp.tree
    /\ alignment = inp.alignment
    /\ model = inp.model
    /\ self = c.self
    /\ held = None
    /\ hist = Hist("init", NoCall, "none", "none")

InitFrom(inputs) ==
    /\ \E inp \in inputs :
            Constructed(inp, Construct(inp.tree, inp.alignment, inp.model))
    /\ rng = 0
    /\ runs = <<>>

Init == InitFrom(Inputs)

\* x = engine.paramsarray
Returned(res) ==
    /\ self' = res.self
    /\ held' = Some([a |-> res.value.a, alias |-> res.value.alias,
                     orig |-> res.value.a])
    /\ hist' = Hist("get", NoCall, "none", "none")
    /\ UNCHANGED <<tree, alignment, model, rng, runs>>

GetParamsarray == Returned(paramsarray_get(self, model))

\* x[i] = v, on the array the last read returned
ModifyReturned ==
    /\ held # None
    /\ \E i \in DOMAIN held[1].a : \E v \in Values \ {held[1].a[i]} :
        LET a1 == [held[1].a EXCEPT ![i] = v]
        IN  /\ held' = Some([held[1] EXCEPT !.a = a1])
            /\ self' = IF held[1].alias THEN [self EXCEPT !._paramsarray = Some(a1)]
                       ELSE self
    /\ hist' = Hist("modify", NoCall, "none", "none")
    /\ UNCHANGED <<tree, alignment, model, rng, runs>>

\* where the array assigned comes from: the array the preceding read
\* returned, that array modified, or elsewhere
FromOf(value) ==
    IF held = None \/ Len(value.shape) # 1 THEN "none"
    ELSE IF value.data # held[1].a THEN "none"
    ELSE IF hist.op = "get" THEN "returned"
    ELSE IF held[1].a # held[1].orig THEN "modified"
    ELSE "none"

\* the kind of an assignment: empty, with a key that is no free parameter
\* (other), giving free parameters their current values (current), or
\* giving some free parameter a new value (new)
AssignmentKind(m, newvalues) ==
    IF DOMAIN newvalues = {} THEN "empty"
    ELSE IF DOMAIN newvalues \ FreeParamSet(m) # {} THEN "other"
    ELSE IF \A param \in DOMAIN newvalues : newvalues[param] = getattr(m, param)
    THEN "current"
    ELSE "new"

\* the kind of an array assigned: not of the shape (nparams,) (badshape),
\* element-wise equal to the cached snapshot (snapshot), or another (ok)
ArrayKind(s, value) ==
    IF Len(value.shape) # 1 \/ value.shape[1] # nparams(s) THEN "badshape"
    ELSE IF s._paramsarray # None
            /\ \A i \in 0..(nparams(s) - 1) : value.data[i] = s._paramsarray[1][i]
    THEN "snapshot"
    ELSE "ok"

\* the state after a mutation returned or raised with res
Mutated(op, res, arg, from) ==
    /\ self' = res.self
    /\ model' = res.model
    /\ held' = None
    /\ hist' = Hist(op, res, arg, from)
    /\ UNCHANGED <<tree, alignment, rng, runs>>

\* engine.paramsarray = value
SetParamsarray ==
    \E value \in ArrayInputs(self) :
        Mutated("set", paramsarray_set(self, model, value),
                ArrayKind(self, value), FromOf(value))

\* engine.updateParams(newvalues)
UpdateParams ==
    \E newvalues \in Assignments(model) :
        Mutated("update", updateParams(self, model, newvalues),
                AssignmentKind(model, newvalues), "none")

Next == GetParamsarray \/ ModifyReturned \/ SetParamsarray \/ UpdateParams

Spec == Init /\ [][Next]_vars

\* the state after maximizeLikelihood raised or returned result
Maximized(run, approx_grad, result) ==
    /\ self' = run.self
    /\ model' = run.model
    /\ held' = None
    /\ hist' = [op |-> "maximize", raised |-> run.raised,
                modelCalled |-> model' # model, kernelRan |-> run.kernels > 0,
                arg |-> IF approx_grad THEN "approx_grad" ELSE "grad",
                from |-> "none", kernels |-> run.kernels, evals |-> run.evals,
                result |-> result]
    /\ UNCHANGED <<tree, alignment, rng, runs>>

\* result = engine.maximizeLikelihood(approx_grad)
MaximizeLikelihood ==
    \E approx_grad \in BOOLEAN :
        \E trials \in TrialSequences(paramsarraybounds(self)) :
            LET run == maximizeLikelihood(self, model, approx_grad, trials)
            IN  IF run.raised THEN Maximized(run, approx_grad, None)
                ELSE \E result \in OptimizeResults(run.evals) :
                        Maximized(run, approx_grad, Some(result))

\* the update protocol with maximizeLikelihood
NextMaximize == MaximizeLikelihood \/ GetParamsarray \/ UpdateParams

SpecMaximize == Init /\ [][NextMaximize]_vars

\* phydmslib.simulate.simulateAlignment(model, tree, prefix, seed, nSim); the
\* caller keeps the alignments of the run
SimulateAlignment ==
    /\ Len(runs) < MaxRuns
    /\ \E seed \in SeedInputs : \E nSim \in 1..MaxSim :
        LET run == simulateAlignment(tree, model, seed, nSim, rng)
        IN  /\ rng' = run.rng
            /\ runs' = Append(runs, [seed |-> seed, nSim |-> nSim,
                                     alignments |-> run.alignments])
            /\ hist' = [op |-> "simulate", raised |-> FALSE]
    /\ UNCHANGED <<tree, alignment, model, self, held>>

\* the runs of simulateAlignment on the tree and the model of the engine
NextSimulate == SimulateAlignment

\* the process starts with its generator in any state
InitAdequacy(inputs) ==
    /\ \E inp \in inputs :
            Constructed(inp, Construct(inp.tree, inp.alignment, inp.model))
    /\ rng \in 0..(RngModulus - 1)
    /\ runs = <<>>

SpecSimulate == InitAdequacy(Inputs) /\ [][NextSimulate]_vars

\* p = calculate_pvalue(simulation_values, true_value, seed), for the lists
\* of up to MaxSims values below, at and above the true value
CalculatePvalue ==
    /\ \E simulation_values \in
                UNION {[1..n -> (TrueValue - 1)..(TrueValue + 1)] : n \in 0..MaxSims} :
       \E seed \in SeedInputs :
        LET res == calculate_pvalue(simulation_values, TrueValue, seed, rng)
        IN  /\ rng' = res.rng
            /\ hist' = [op |-> "pvalue", raised |-> res.raised,
                        simulation_values |-> simulation_values,
                        true_value |-> TrueValue, seed |-> seed,
                        pvalue |-> res.pvalue]
    /\ UNCHANGED <<tree, alignment, model, self, held, runs>>

NextPvalue == CalculatePvalue

\* calculate_pvalue reads neither the tree nor the model: one engine
SpecPvalue ==
    /\ InitAdequacy({inp \in Inputs :
                        /\ inp.tree = Tree2
                        /\ inp.model.values["phi"] = ArrayValue(Full(2, 1))})
    /\ [][NextPvalue]_vars

\* the engines the constructor returns for ConstructorInputs, and reads of
\* their paramsarray
InitConstruct == InitFrom(ConstructorInputs)

NextConstruct == GetParamsarray

SpecConstruct == InitConstruct /\ [][NextConstruct]_vars

(***************************************************************************)
(* Properties of the update protocol (under Spec).                         *)
(***************************************************************************)
\* the cached quantities of an engine
Caches(s) ==
    [L |-> s.L, dL |-> s.dL, siteloglik |-> s.siteloglik, loglik |-> s.loglik,
     dsiteloglik |-> s.dsiteloglik, dloglik |-> s.dloglik,
     dloglikarray |-> dloglikarray(s)]

\* the caches of s are those of the kernel run whose result is run, where
\* that run produces any (it does not raise)
CachesAre(s, run) == run.raised \/ Caches(s) = Caches(run.self)

\* the caches are those a full kernel run on the current model produces
CachesCurrent == CachesAre(self, _updateInternals(self, model))

\* the last operation was a public mutation and it returned normally
MutationReturned == hist.op \in {"set", "update"} /\ ~hist.raised

\* C1: after any sequence of public mutations, once a mutation has returned
\* normally, L, dL, siteloglik, loglik, dsiteloglik, dloglik and dloglikarray
\* are exactly those of a full kernel run on the model's current parameter
\* values.  Stated for the states in which that kernel run does not raise.
C1_CachesCurrentAfterMutation == MutationReturned => CachesCurrent

\* the step is a read of paramsarray
GetStep == hist'.op = "get"

\* the step assigns to paramsarray the array the preceding read returned
AssignReturnedStep == hist'.op = "set" /\ hist'.from = "returned"

\* the step leaves the parameter values and the likelihood caches alone
ValuesAndCachesUnchanged ==
    /\ model'.values = model.values
    /\ Caches(self') = Caches(self)

\* C2: reading paramsarray and assigning the returned array back unmodified
\* leaves the parameter values, L, dL, siteloglik, loglik, dsiteloglik and
\* dloglik unchanged and does not call the model's updateParams.
C2_RoundTrip ==
    [][(GetStep \/ AssignReturnedStep) =>
            /\ ValuesAndCachesUnchanged
            /\ ~hist'.raised
            /\ ~hist'.modelCalled]_vars

\* a round trip has happened on an engine whose snapshot the read created
C2_Witness ==
    /\ hist.op = "set"
    /\ hist.from = "returned"
    /\ self._paramsarray # None
    /\ ~hist.kernelRan

\* C3: updateParams with an assignment that maps free parameters to their
\* current values leaves loglik and dloglikarray as they were.
C3_IdempotentUpdate ==
    [][(hist'.op = "update" /\ hist'.arg = "current") =>
            /\ self'.loglik = self.loglik
            /\ dloglikarray(self') = dloglikarray(self)]_vars

\* C4: updateParams with a key that is not in model.freeparams raises and
\* leaves the parameter values, the likelihood tables, loglik and the cached
\* snapshot as they were.
C4_RejectedKeyChangesNothing ==
    [][(hist'.op = "update" /\ hist'.arg = "other") =>
            /\ hist'.raised
            /\ model'.values = model.values
            /\ self'.L = self.L
            /\ self'.dL = self.dL
            /\ self'.loglik = self.loglik
            /\ self'._paramsarray = self._paramsarray]_vars

\* C5: assigning to paramsarray an array element-wise equal to the cached
\* snapshot calls neither the model's updateParams nor the kernel and changes
\* neither the caches nor the snapshot.
C5_EqualAssignmentIsNoOp ==
    [][(hist'.op = "set" /\ hist'.arg = "snapshot") =>
            /\ ~hist'.raised
            /\ ~hist'.modelCalled
            /\ ~hist'.kernelRan
            /\ self' = self
            /\ model' = model]_vars

\* an array equal to the snapshot was assigned though it was not the array
\* the preceding read returned
C5_Witness ==
    /\ hist.op = "set"
    /\ hist.arg = "snapshot"
    /\ hist.from = "none"

\* C8: modifying in place the array a read of paramsarray returned changes
\* neither the cached snapshot nor the model, and assigning the modified
\* array afterwards runs an update.
C8_DefensiveCopy ==
    [][/\ hist'.op = "modify" => (self' = self /\ model' = model)
       /\ (hist'.op = "set" /\ hist'.from = "modified") =>
            (hist'.modelCalled /\ hist'.kernelRan)]_vars

\* the array a read returned was modified and assigned, and the update ran
C8_Witness ==
    /\ hist.op = "set"
    /\ hist.from = "modified"
    /\ hist.kernelRan
    /\ ~hist.raised

\* C9: assigning to paramsarray an array of the wrong length or not
\* 1-dimensional raises, and the model, the likelihood tables, loglik and the
\* cached snapshot are unchanged.
C9_BadShapeRaisesFirst ==
    [][(hist'.op = "set" /\ hist'.arg = "badshape") =>
            /\ hist'.raised
            /\ ~hist'.modelCalled
            /\ ~hist'.kernelRan
            /\ self' = self
            /\ model' = model]_vars

\* an array of a bad shape was assigned to an engine that holds a snapshot
C9_Witness ==
    /\ hist.op = "set"
    /\ hist.arg = "badshape"
    /\ hist.raised
    /\ self._paramsarray # None

(***************************************************************************)
(* Properties of the constructed engine (under SpecConstruct).             *)
(***************************************************************************)
RECURSIVE CladePaths(_, _)
\* the paths of the clades below and including the clade at path
CladePaths(clade, path) ==
    {path} \cup UNION {CladePaths(clade.clades[i], Append(path, i - 1)) :
                            i \in 1..Len(clade.clades)}

\* the paths of the tips of the tree
TipPaths == {p \in CladePaths(tree.root, <<>>) : NodeAt(tree.root, p).clades = <<>>}

\* C6: node indices 0..ntips-1 are exactly the tips, ntips..nnodes-1 exactly
\* the internal nodes, the root has index nnodes-1, and for every internal
\* node m rdescend[m-ntips] and ldescend[m-ntips] are the indices of its
\* children and strictly less than m.
C6_NodeIndexing ==
    LET paths == CladePaths(tree.root, <<>>)
        idx == self.name_to_nodeindex
    IN  /\ DOMAIN idx = paths
        /\ Cardinality(paths) = self.nnodes
        /\ {idx[p] : p \in paths} = 0..(self.nnodes - 1)
        /\ {idx[p] : p \in TipPaths} = 0..(self.ntips - 1)
        /\ {idx[p] : p \in paths \ TipPaths} = self.ntips..(self.nnodes - 1)
        /\ idx[<<>>] = self.nnodes - 1
        /\ \A p \in paths \ TipPaths :
                /\ self.rdescend[idx[p] - self.ntips] = idx[Append(p, 0)]
                /\ self.ldescend[idx[p] - self.ntips] = idx[Append(p, 1)]
                /\ self.rdescend[idx[p] - self.ntips] < idx[p]
                /\ self.ldescend[idx[p] - self.ntips] < idx[p]

\* an engine for a tree whose postorder visits an internal node before a tip
C6_Witness ==
    /\ hist.op = "init"
    /\ tree = Tree4
    /\ self.name_to_nodeindex[<<0>>] = 4
    /\ self.name_to_nodeindex[<<1, 0>>] = 2

\* the number of flat slots of a parameter value
SlotsOf(paramvalue) ==
    IF paramvalue.kind = "float" THEN 1 ELSE Cardinality(DOMAIN paramvalue.v)

RECURSIVE FirstSlot(_, _)
\* the number of flat slots of the free parameters before position k
FirstSlot(m, k) ==
    IF k = 1 THEN 0
    ELSE FirstSlot(m, k - 1) + SlotsOf(m.values[m.freeparams[k - 1]])

\* C7: the flat slot map lists the free parameters in the order of
\* freeparams, one slot for a scalar and k consecutive slots, components
\* 0..k-1 in order, for a vector of length k; _index_to_param is a bijection
\* from 0..nparams-1 onto these slots and _param_to_index is its inverse.
C7_SlotMap ==
    LET i2p == self._index_to_param
        p2i == self._param_to_index
        n == FirstSlot(model, Len(model.freeparams) + 1)
    IN  /\ DOMAIN i2p = 0..(n - 1)
        /\ \A k \in 1..Len(model.freeparams) :
                LET param == model.freeparams[k]
                    first == FirstSlot(model, k)
                IN  IF model.values[param].kind = "float"
                    THEN i2p[first] = <<param>>
                    ELSE \A j \in 0..(SlotsOf(model.values[param]) - 1) :
                            i2p[first + j] = <<param, j>>
        /\ \A i, j \in DOMAIN i2p : i2p[i] = i2p[j] => i = j
        /\ DOMAIN p2i = {i2p[i] : i \in DOMAIN i2p}
        /\ \A i \in DOMAIN i2p : p2i[i2p[i]] = i

\* an engine whose model declares a vector, a scalar and a vector
C7_Witness ==
    /\ hist.op = "init"
    /\ model.freeparams = <<"phi", "omega", "eta">>
    /\ self._index_to_param[3] = <<"eta", 1>>
    /\ self._param_to_index[<<"omega">>] = 1

\* the codon of the sequence seq at site r
SiteCodon(seq, r) == <<seq[3 * r + 1], seq[3 * r + 2], seq[3 * r + 3]>>

\* the encoding of tip n is that of the sequence seq
EncodesSequence(n, seq) ==
    LET gapsites == {r \in 0..(self.nsites - 1) : SiteCodon(seq, r) = <<"-", "-", "-">>}
    IN  /\ {self.gaps[n][k] : k \in DOMAIN self.gaps[n]} = gapsites
        /\ Cardinality(DOMAIN self.gaps[n]) = Cardinality(gapsites)
        /\ \A r \in 0..(self.nsites - 1) :
                /\ self.tips[n][r] \in 0..(N_CODON - 1)
                /\ IF r \in gapsites THEN self.tips[n][r] = 0
                   ELSE INDEX_TO_CODON[self.tips[n][r]] = SiteCodon(seq, r)

\* C10: for every tip index n < ntips and site r < nsites, tips[n][r] is a
\* codon index; gaps[n] is exactly the set of sites at which the alignment
\* sequence of the tip with index n is '---'; tips[n][r] = 0 at those sites
\* and the codon-table index of the tip's codon at the others.
C10_TipEncoding ==
    /\ DOMAIN self.tips = 0..(self.ntips - 1)
    /\ DOMAIN self.gaps = 0..(self.ntips - 1)
    /\ \A p \in TipPaths :
            \E i \in 1..Len(alignment) :
                /\ alignment[i][1] = NodeAt(tree.root, p).name
                /\ EncodesSequence(self.name_to_nodeindex[p], alignment[i][2])

\* an engine with a tip that has a gap at the second of two sites and a
\* codon other than the first of the table, listed last in the alignment
C10_Witness ==
    /\ hist.op = "init"
    /\ self.nsites = 2
    /\ self.ntips = 3
    /\ alignment[3][1] = "tipA"
    /\ \E n \in DOMAIN self.tips :
            /\ self.tips[n] = (0 :> 1 @@ 1 :> 0)
            /\ self.gaps[n] = (0 :> 1)

(***************************************************************************)
(* The keys of name_to_nodeindex.  Line 198 stores the Clade object node   *)
(* as the key; Bio.Phylo clades compare by identity, so a key is a Clade   *)
(* (identified by its path) and a str is equal to none of them.            *)
(***************************************************************************)
\* the key that is the str name
StrKey(name) == [str |-> name]

\* self.name_to_nodeindex as the dict a caller reads, the key that is the
\* Clade object at path being [clade |-> path]
NodeindexDict(s) ==
    [key \in {[clade |-> path] : path \in DOMAIN s.name_to_nodeindex} |->
        s.name_to_nodeindex[key.clade]]

\* C11: after construction name_to_nodeindex maps every tip label (every
\* alignment header, every tree tip name) to the index of that tip, which
\* lies in 0..ntips-1.
C11_TipLabelsIndexed ==
    LET d == NodeindexDict(self)
        labels == {alignment[i][1] : i \in 1..Len(alignment)}
                    \cup {NodeAt(tree.root, p).name : p \in TipPaths}
    IN  \A name \in labels :
            /\ StrKey(name) \in DOMAIN d
            /\ d[StrKey(name)] \in 0..(self.ntips - 1)
            /\ \E p \in TipPaths :
                    /\ NodeAt(tree.root, p).name = name
                    /\ d[StrKey(name)] = self.name_to_nodeindex[p]

(***************************************************************************)
(* Properties of the gradient and the kernel.                              *)
(***************************************************************************)
\* C12: dloglikarray has length nparams and is aligned slot for slot with
\* paramsarray: the slot that holds the scalar parameter p holds dloglik[p],
\* and the slot that holds component j of the vector parameter p holds
\* dloglik[p][j].
C12_GradientAligned ==
    LET g == dloglikarray(self)
        flat == FlatFromModel(self, model)
    IN  /\ nparams(self) = FirstSlot(model, Len(model.freeparams) + 1)
        /\ DOMAIN g = 0..(nparams(self) - 1)
        /\ DOMAIN flat = DOMAIN g
        /\ \A k \in 1..Len(model.freeparams) :
                LET param == model.freeparams[k]
                    first == FirstSlot(model, k)
                IN  IF model.values[param].kind = "float"
                    THEN /\ flat[first] = model.values[param].v[<<>>]
                         /\ g[first] = self.dloglik[param][<<>>]
                    ELSE \A j \in 0..(SlotsOf(model.values[param]) - 1) :
                            /\ flat[first + j] = model.values[param].v[<<j>>]
                            /\ g[first + j] = self.dloglik[param][<<j>>]

\* after an update that ran the kernel, the derivatives with respect to the
\* two components of a vector parameter differ
C12_Witness ==
    /\ hist.op \in {"set", "update"}
    /\ hist.kernelRan
    /\ ~hist.raised
    /\ "phi" \in DOMAIN self.dloglik
    /\ self.dloglik["phi"][<<0>>] # self.dloglik["phi"][<<1>>]
    /\ dloglikarray(self)[1] = self.dloglik["phi"][<<1>>]

(***************************************************************************)
(* Properties of maximizeLikelihood (under SpecMaximize).                  *)
(***************************************************************************)
\* C13: after maximizeLikelihood returned its result, paramsarray equals the
\* optimum point the optimizer returned and loglik equals the negated optimum
\* function value, whatever trial points the optimizer evaluated.
C13_EngineAtOptimum ==
    (hist.op = "maximize" /\ ~hist.raised) =>
        /\ paramsarray_get(self, model).value.a = hist.result[1].x
        /\ self.loglik = 0 - hist.result[1].fun

(***************************************************************************)
(* Properties of the kernel on the constructed engines (SpecConstruct).    *)
(***************************************************************************)
\* the engine with rdescend[ni] and ldescend[ni] exchanged
SwapDescendants(s, ni) ==
    [s EXCEPT !.rdescend[ni] = s.ldescend[ni], !.ldescend[ni] = s.rdescend[ni]]

RECURSIVE SwapClades(_, _)
\* the clade with the two children of the clade at path exchanged
SwapClades(clade, path) ==
    IF path = <<>>
    THEN [clade EXCEPT !.clades = <<clade.clades[2], clade.clades[1]>>]
    ELSE [clade EXCEPT !.clades[Head(path) + 1] = SwapClades(@, Tail(path))]

\* the message of child c of the engine in its present state
MessageOf(s, m, c) == MessageFrom(s, c, TransitionTo(s, m, c))

\* C14: for any internal node m, exchanging rdescend[m-ntips] and
\* ldescend[m-ntips] gives the same L at every internal node and the same
\* loglik; so does the engine built for the tree with the two children of
\* that node exchanged.
C14_SiblingOrder ==
    /\ \A ni \in DOMAIN self.rdescend :
            LET run == _updateInternals(SwapDescendants(self, ni), model)
            IN  /\ ~run.raised
                /\ run.self.L = self.L
                /\ run.self.loglik = self.loglik
    /\ \A p \in CladePaths(tree.root, <<>>) \ TipPaths :
            LET built == Construct([root |-> SwapClades(tree.root, p)],
                                   alignment, model)
            IN  /\ ~built.raised
                /\ built.self.loglik = self.loglik

\* an engine whose root has an internal child and a tip child with
\* different messages, at two sites
C14_Witness ==
    /\ hist.op = "init"
    /\ self.nsites = 2
    /\ self.ntips = 3
    /\ self.rdescend[1] >= self.ntips
    /\ self.ldescend[1] < self.ntips
    /\ \A r \in 0..1 :
            MessageOf(self, model, self.rdescend[1])[r]
                # MessageOf(self, model, self.ldescend[1])[r]
    /\ SwapDescendants(self, 1) # self

(***************************************************************************)
(* The two-tip tree with an observed codon and a gap (under Spec: Tree2    *)
(* with Alignment2, every value of the model's parameters).                *)
(***************************************************************************)
\* the engine is that of the two-tip tree, tipA an observed codon, tipB '---'
TwoTipsOneGap == tree = Tree2 /\ alignment = Alignment2

\* sitelik of site 0 as a kernel run on the current model computes it
SitelikNow == SiteLik(Last(_computePartialLikelihoods(self, model).L),
                      stationarystate(model))[0]

\* sum over x of pi[x] * M(t)[x][a]: the column of M(t) of the codon a
ColumnReference(m, t, a) ==
    Sum0([x \in Codons |-> stationarystate(m)[0][x] * M(m, t)[0][x][a]])

\* sum over x of pi[x] * M(t)[a][x]: the row of M(t) of the codon a
RowReference(m, t, a) ==
    Sum0([x \in Codons |-> stationarystate(m)[0][x] * M(m, t)[0][a][x]])

\* the last operation ran the kernel and it returned
KernelReturned == hist.op = "init" \/ (hist.kernelRan /\ ~hist.raised)

\* C15 (as stated): for the two-tip tree with one site, tipA the observed
\* codon a and tipB the gap, sitelik is the sum over x of pi[x] * M(t)[a][x].
C15_GapTipRowSum ==
    TwoTipsOneGap => SitelikNow = RowReference(model, self.t[0], self.tips[0][0])

\* C15 (amended): for the two-tip tree with one site, tipA the observed codon
\* a and tipB the gap, the gap tip contributes the all-ones message and
\* sitelik is the sum over x of pi[x] * M(t)[x][a], the column of M(t) that
\* the codon of tipA selects; siteloglik is its logarithm.
C15_GapTipColumnSum ==
    TwoTipsOneGap =>
        /\ self.name_to_nodeindex[<<0>>] = 0
        /\ self.gaps[1] = (0 :> 0)
        /\ \A x \in Codons : MessageOf(self, model, 1)[0][x] = 1
        /\ SitelikNow = ColumnReference(model, self.t[0], self.tips[0][0])
        /\ KernelReturned =>
                self.siteloglik[0]
                    = Log(ColumnReference(model, self.t[0], self.tips[0][0]))

\* an update ran the kernel on the two-tip engine with parameter values for
\* which the column and the row of M(t) give different sums
C15_Witness ==
    /\ TwoTipsOneGap
    /\ hist.op = "update"
    /\ hist.kernelRan
    /\ ~hist.raised
    /\ ColumnReference(model, self.t[0], self.tips[0][0])
            # RowReference(model, self.t[0], self.tips[0][0])

(***************************************************************************)
(* Properties of the simulation runs (under SpecSimulate).                 *)
(***************************************************************************)
\* the replicates both runs have
CommonReplicates(i, j) ==
    1..(IF runs[i].nSim < runs[j].nSim THEN runs[i].nSim ELSE runs[j].nSim)

\* two runs with the same seed produce identical sequences replicate for
\* replicate and tip for tip
SameSeedSameSequences ==
    \A i, j \in 1..Len(runs) :
        (runs[i].seed # None /\ runs[i].seed = runs[j].seed) =>
            \A rep \in CommonReplicates(i, j) :
                runs[i].alignments[rep] = runs[j].alignments[rep]

\* within one run the replicates of each tip are pairwise different
ReplicatesPairwiseDifferent ==
    \A i \in 1..Len(runs) :
        \A rep1, rep2 \in 1..runs[i].nSim :
            rep1 # rep2 =>
                \A k \in 1..Len(runs[i].alignments[rep1]) :
                    runs[i].alignments[rep1][k] # runs[i].alignments[rep2][k]

\* a run with a different seed differs on at least one replicate
DifferentSeedDifferentRun ==
    \A i, j \in 1..Len(runs) :
        (runs[i].seed # None /\ runs[j].seed # None /\ runs[i].seed # runs[j].seed) =>
            \E rep \in CommonReplicates(i, j) :
                runs[i].alignments[rep] # runs[j].alignments[rep]

C17_Pvalue ==
    hist.op = "pvalue" =>
        LET n == Len(hist.simulation_values)
            g == Cardinality({i \in 1..n :
                                hist.simulation_values[i] > hist.true_value})
            k == Cardinality({i \in 1..n :
                                hist.simulation_values[i] = hist.true_value})
        IN  IF n < 2 THEN hist.raised /\ hist.pvalue = None
            ELSE /\ ~hist.raised
                 /\ hist.pvalue[1].den = n + 1
                 /\ \E b \in (IF k = 0 THEN {0} ELSE 0..(k - 1)) :
                        hist.pvalue[1].num = g + b + 1
                 /\ 0 <= hist.pvalue[1].num
                 /\ hist.pvalue[1].num <= hist.pvalue[1].den

\* a call with one value above the true value and two ties, one of them
\* drawn as greater
C17_Witness ==
    /\ hist.op = "pvalue"
    /\ hist.simulation_values = <<TrueValue, TrueValue, TrueValue + 1>>
    /\ hist.pvalue = Some([num |-> 3, den |-> 4])

(***************************************************************************)
(* Properties of a kernel run: what it reads (under SpecConstruct).        *)
(***************************************************************************)
\* the engine with the entry [x] of every row of L and dL replaced by
\* fill[1] + fill[2] * x
Refilled(s, fill) ==
    [s EXCEPT
        !.L = [ni \in DOMAIN @ |-> [r \in DOMAIN @[ni] |->
                    [x \in DOMAIN @[ni][r] |-> fill[1] + fill[2] * x]]],
        !.dL = [param \in DOMAIN @ |-> [ni \in DOMAIN @[param] |->
                    [j \in DOMAIN @[param][ni] |-> [r \in DOMAIN @[param][ni][j] |->
                        [x \in DOMAIN @[param][ni][j][r] |->
                            fill[1] + fill[2] * x]]]]]]

\* what the tables may hold before a run: the fill value -1 of the
\* constructor, and other values, as an earlier run leaves them
Fills == {<<-1, 0>>, <<0, 0>>, <<5, 0>>, <<2, 3>>}

\* the internal children of the internal node with row ni
InternalChildren(s, ni) == {c \in {s.rdescend[ni], s.ldescend[ni]} : c >= s.ntips}

\* C18: a kernel run processes the internal nodes in ascending index order,
\* the rows of L and dL it reads for an internal child belong to nodes
\* processed earlier in the run, and nothing it computes (the tables, the
\* root reduction) depends on what L and dL held before the run: neither the
\* fill value -1 of the constructor nor a value of an earlier run is read.
C18_ReadsAfterWrites ==
    /\ \A ni \in DOMAIN self.rdescend :
            \A c \in InternalChildren(self, ni) : c < ni + self.ntips
    /\ \A fill \in Fills :
            LET run == _updateInternals(Refilled(self, fill), model)
            IN  /\ ~run.raised
                /\ Caches(run.self) = Caches(self)
    /\ CachesCurrent

\* an engine whose root has two internal children, and its tables differ
\* from every fill
C18_Witness ==
    /\ tree = Tree4
    /\ hist.op = "init"
    /\ Cardinality(InternalChildren(self, 2)) = 2
    /\ \A fill \in Fills : Refilled(self, fill).L # self.L

(***************************************************************************)
(* Properties of a kernel run: the tables it leaves (under Spec).          *)
(***************************************************************************)
\* the last call ran the kernel over the tree (the constructor always does)
AfterKernelRun == hist.op = "init" \/ hist.kernelRan

\* the message of the child c at site r and state x, from the model and the
\* tables of the engine
ChildMessage(c, r, x) ==
    IF c < self.ntips
    THEN Mtip(model, self.t[c], self.tips[c], self.gaps[c])[r][x]
    ELSE Sum0([y \in Codons |->
                M(model, self.t[c])[r][x][y] * self.L[c - self.ntips][r][y]])

\* C19: after a kernel run, for every internal node, site r and state x,
\* the entry of L is the product of the messages of the right and of the
\* left child, the message of a tip being M(t, tips, gaps)[r][x] and that of
\* an internal child the sum over y of M(t)[r][x][y] * L[child][r][y].
C19_PartialLikelihoods ==
    AfterKernelRun =>
        \A ni \in DOMAIN self.L : \A r \in Sites(model) : \A x \in Codons :
            self.L[ni][r][x] = ChildMessage(self.rdescend[ni], r, x)
                                * ChildMessage(self.ldescend[ni], r, x)

\* a kernel run of an update on the tree with an internal child, with an
\* entry of the root row that is neither 0 nor 1
C19_Witness ==
    /\ tree = Tree3
    /\ hist.op = "update"
    /\ hist.kernelRan
    /\ InternalChildren(self, 1) # {}
    /\ \E r \in Sites(model) : \E x \in Codons : self.L[1][r][x] > 1

(***************************************************************************)
(* Properties of a kernel run: the derivative tables (under SpecConstruct). *)
(***************************************************************************)
\* the index tuples of a free parameter: the empty one for a scalar,
\* (0,), ..., (k-1,) for a vector of length k
ComponentIndices(param) ==
    IF isfloat(getattr(model, param)) THEN {<<>>}
    ELSE {<<i>> : i \in 0..(Cardinality(DOMAIN getattr(model, param).v) - 1)}

\* dMLc[j] at site r and state x: dMc[j] for a tip, dMc[j] applied to the
\* row of L of an internal child
ChildDML(param, j, c, r, x) ==
    IF c < self.ntips
    THEN dMtip(model, self.t[c], param, self.tips[c], self.gaps[c])[j][r][x]
    ELSE Sum0([y \in Codons |->
                dM(model, self.t[c], param)[j][r][x][y]
                    * self.L[c - self.ntips][r][y]])

\* MdLc[j] at site r and state x: 0 for a tip, Mc applied to the row of
\* dL[param] of an internal child
ChildMDL(param, j, c, r, x) ==
    IF c < self.ntips THEN 0
    ELSE Sum0([y \in Codons |->
                M(model, self.t[c])[r][x][y]
                    * self.dL[param][c - self.ntips][j][r][y]])

\* C20: after a kernel run, for every free parameter, every component index
\* j of it (the empty index for a scalar, 0..k-1 for a vector of length k)
\* and every internal node, dL[param][node][j] is
\* (dMLright[j] + MdLright[j]) * MLleft + MLright * (dMLleft[j] + MdLleft[j]),
\* with dMLc and MdLc of a tip and of an internal child as above.
C20_ProductRule ==
    AfterKernelRun =>
        \A param \in FreeParamSet(model) : \A ni \in DOMAIN self.L :
            /\ DOMAIN self.dL[param][ni] = ComponentIndices(param)
            /\ \A j \in ComponentIndices(param) :
                \A r \in Sites(model) : \A x \in Codons :
                    LET nright == self.rdescend[ni]
                        nleft == self.ldescend[ni]
                    IN  self.dL[param][ni][j][r][x] =
                            (ChildDML(param, j, nright, r, x)
                                + ChildMDL(param, j, nright, r, x))
                              * ChildMessage(nleft, r, x)
                            + ChildMessage(nright, r, x)
                              * (ChildDML(param, j, nleft, r, x)
                                    + ChildMDL(param, j, nleft, r, x))

\* an engine with a scalar and a vector parameter whose root has an internal
\* child with a nonzero derivative row for the second component of the vector
C20_Witness ==
    /\ hist.op = "init"
    /\ FreeParamSet(model) = {"kappa", "eta"}
    /\ ComponentIndices("kappa") = {<<>>}
    /\ ComponentIndices("eta") = {<<0>>, <<1>>}
    /\ \E c \in InternalChildren(self, self.ninternal - 1) :
            \E r \in Sites(model) : \E x \in Codons :
                /\ ChildMDL("eta", <<1>>, c, r, x) # 0
                /\ ChildMDL("kappa", <<>>, c, r, x) # 0

(***************************************************************************)
(* Properties of the root reduction (under Spec).                          *)
(***************************************************************************)
\* the likelihood of site r from the row of the node n of L
SitelikAt(n, r) ==
    Sum0([x \in Codons |->
            self.L[n - self.ntips][r][x] * stationarystate(model)[r][x]])

\* C21: after every kernel run that returned, the last row of L is the row
\* of the root node nnodes-1, sitelik[r] is the sum over x of
\* L[root - ntips][r][x] * pi[r][x], siteloglik[r] = log(sitelik[r]), loglik
\* is the sum over the sites of siteloglik[r], and for every free parameter
\* dloglik is, component by component, the sum over the sites of dsiteloglik.
C21_RootReduction ==
    KernelReturned =>
        LET root == self.name_to_nodeindex[<<>>]
        IN  /\ root = self.nnodes - 1
            /\ root - self.ntips = Len0(self.L) - 1
            /\ DOMAIN self.siteloglik = Sites(model)
            /\ \A r \in Sites(model) :
                    /\ SitelikAt(root, r) > 0
                    /\ self.siteloglik[r] = Log(SitelikAt(root, r))
            /\ self.loglik = Sum0(self.siteloglik)
            /\ DOMAIN self.dloglik = FreeParamSet(model)
            /\ \A param \in FreeParamSet(model) :
                    /\ DOMAIN self.dloglik[param] = ComponentIndices(param)
                    /\ \A j \in ComponentIndices(param) :
                            self.dloglik[param][j] = Sum0(self.dsiteloglik[param][j])

\* a kernel run of an update on the tree with two internal nodes whose rows
\* give different site likelihoods, at two sites
C21_Witness ==
    /\ tree = Tree3
    /\ hist.op = "update"
    /\ hist.kernelRan
    /\ ~hist.raised
    /\ model.nsites = 2
    /\ \E r \in Sites(model) : SitelikAt(self.ntips, r) # SitelikAt(self.nnodes - 1, r)

(***************************************************************************)
(* Properties of func and dfunc at one point (under SpecMaximize).         *)
(***************************************************************************)
\* the points an optimizer may evaluate
Points == [DOMAIN self._index_to_param -> Values]

\* the number of kernel runs of a callback
KernelRuns(call) == IF call.kernelRan THEN 1 ELSE 0

\* C22: when func and then dfunc are evaluated at the same point x, the
\* kernel is re-run at most once: after the assignment of func returned, the
\* snapshot equals x, and the assignment of dfunc is skipped (it runs no
\* kernel and changes neither the engine nor the model); a call of
\* maximizeLikelihood with the analytical gradient runs the kernel at most
\* once for each point it evaluates.
C22_SamePointOneKernelRun ==
    /\ \A x \in Points :
            LET f == func(self, model, x)
                g == dfunc(f.self, f.model, x)
            IN  ~f.raised =>
                    /\ f.self._paramsarray = Some(x)
                    /\ ~g.raised
                    /\ ~g.kernelRan
                    /\ g.self = f.self
                    /\ g.model = f.model
                    /\ KernelRuns(f) + KernelRuns(g) <= 1
    /\ (hist.op = "maximize" /\ hist.arg = "grad") =>
            hist.kernels <= Len(hist.evals) + (IF hist.raised THEN 1 ELSE 0)

\* a call with the analytical gradient that evaluated a point other than the
\* starting point, with one kernel run for it
C22_Witness ==
    /\ hist.op = "maximize"
    /\ hist.arg = "grad"
    /\ ~hist.raised
    /\ Len(hist.evals) = 2
    /\ hist.evals[2].x # hist.evals[1].x
    /\ hist.kernels = 1
    /\ \E x \in Points : func(self, model, x).kernelRan

(***************************************************************************)
(* Properties of the snapshot _paramsarray (under Spec).                   *)
(***************************************************************************)
\* the snapshot, when set, is the flattening of the model's current values
SnapshotCurrent ==
    self._paramsarray # None => self._paramsarray[1] = FlatFromModel(self, model)

\* C23: over construction, reads of paramsarray, assignments to it and
\* updateParams calls that all return normally, the snapshot, whenever set,
\* equals slot for slot the flattening of the model's current parameter
\* values (it does after construction, and every call that returns normally
\* keeps it so); every non-empty updateParams that returns clears the
\* snapshot, and an empty updateParams returns and leaves it as it was.
C23_SnapshotCurrent ==
    /\ SnapshotCurrent
    /\ [][/\ (SnapshotCurrent /\ ~hist'.raised) => SnapshotCurrent'
          /\ (hist'.op = "update" /\ ~hist'.raised /\ hist'.arg # "empty") =>
                self'._paramsarray = None
          /\ (hist'.op = "update" /\ hist'.arg = "empty") =>
                (~hist'.raised /\ self'._paramsarray = self._paramsarray)]_vars

\* an assignment to paramsarray ran an update of a vector parameter and
\* returned, and the snapshot it left holds values other than the initial ones
C23_Witness ==
    /\ tree = Tree2
    /\ hist.op = "set"
    /\ hist.kernelRan
    /\ ~hist.raised
    /\ self._paramsarray # None
    /\ self._paramsarray[1] = FlatFromModel(self, model)
    /\ \E i \in DOMAIN self._paramsarray[1] : self._paramsarray[1][i] = 0

(***************************************************************************)
(* Recovery after an update that raised (under Spec).                      *)
(***************************************************************************)
\* the last call was an update that called model.updateParams and raised:
\* on a key that is no free parameter, or in the kernel
FailedUpdate == hist.op = "update" /\ hist.raised /\ hist.modelCalled

\* C24: after an update in which the model was changed but the call raised,
\* the next assignment to paramsarray that returns normally leaves L, dL,
\* loglik and the gradient those of a kernel run on the model's current
\* parameter values, whatever array is assigned.
C24_RecoveryAfterFailedUpdate ==
    FailedUpdate =>
        \A value \in ArrayInputs(self) :
            LET set == paramsarray_set(self, model, value)
            IN  ~set.raised =>
                    CachesAre(set.self, _updateInternals(set.self, set.model))

====
